---- MODULE Spec2Model ----
(***************************************************************************)
(* The training loop of allrank/training/train_utils.py: fit() and the     *)
(* helpers it calls, as a state machine.  One action per statement group   *)
(* of fit(); the collaborators (model, loss function, metric registry,     *)
(* scheduler, file system) are represented by what fit() observes of them. *)
(*                                                                         *)
(* Conventions                                                             *)
(*   - Python's None and an unbound local are the integer None (-1); all   *)
(*     losses, sizes, metric values and epoch indices are >= 0.            *)
(*   - a float quotient a / b is kept exact as the pair [num, den].        *)
(*   - metric values are tenths: 1 stands for 0.1, 3 for 0.3.              *)
(***************************************************************************)
EXTENDS Integers, Sequences, FiniteSets, TLC

VARIABLES
    \* ---- arguments of fit(), fixed during a run
    epochs,                   \* epochs
    early_stopping_patience,  \* early_stopping_patience (None or 0: unset)
    scheduler,                \* kind of the scheduler argument
    train_dl,                 \* training split: the sizes len(xb) of its batches
    valid_dl,                 \* validation split: the sizes of its batches
    loss_func,                \* the values loss_func(...).item() can take
    config_metrics,           \* config.metrics: the metric names (cutoffs: Ats)
    config_val_metric,        \* config.val_metric: a key <<name, at>>
    gradient_clipping_norm,   \* gradient_clipping_norm (None: unset)
    \* ---- locals of fit()
    pc,                       \* position in fit()
    epoch,                    \* loop variable (None before the first iteration)
    acc,                      \* the list a comprehension of loss_batch is building
    train_losses, train_nums, train_loss,
    val_losses, val_nums, val_loss,
    train_metrics, val_metrics,
    current_val_metric_value,
    early_stop,               \* the EarlyStop object
    result,                   \* the returned dict (None until fit returns)
    error,                    \* the exception fit() ended with ("none" if none)
    \* ---- collaborators, as far as fit() acts on them
    mode,                     \* model.training: "train" / "eval"
    opt_steps,                \* number of optimizer.step() calls (parameter updates)
    backward_calls,           \* number of loss.backward() calls
    sched_steps,              \* arguments of the scheduler.step calls, one per epoch
    tb_writes,                \* number of save_to_tensorboard calls
    exported,                 \* epochs whose {e}.model.predict*.txt were written
    checkpoint_writes,        \* number of torch.save(..., "model.pkl") calls
    writer_closed,            \* close_all_writers() was called
    autograd,                 \* the parameters' .grad and the optimizer's last step
    batch_ops,                \* what the latest loss_batch call did, in order
    grad_enabled,             \* FALSE inside a torch.no_grad() block
    export_calls,             \* the compute_test calls made: <<epoch, mode, grad_enabled>>
    \* ---- compute_test(metrics, model, dl, dev, output_dir, epoch) and the
    \* ---- compute_metrics call on the same split
    ct_pc,                    \* position in compute_test
    ct_epoch,                 \* its epoch argument
    ct_metrics,               \* its metrics argument: <<name, ats>> in dict order
    X_by_qid,                 \* dl.dataset.X_by_qid: per query, one feature per document
    batch_size,               \* number of queries in a batch of dl
    files,                    \* output_dir: file name -> lines
    num_query,                \* loop variable of the query loop
    all_results_metric,       \* key -> per-query values collected
    ct_result,                \* metric_values_dict returned by compute_test
    scored,                   \* the feature tensors compute_test handed to model.score
    cm_state,                 \* "idle", "done" or "raised": the compute_metrics call
    cm_result,                \* the dict compute_metrics returned
    \* ---- observation of the run
    val_hist,                 \* current_val_metric_value handed to early_stop.step, per epoch
    metric_calls              \* the compute_metrics calls made: <<split, epoch, mode>>

inputs == <<epochs, early_stopping_patience, scheduler, train_dl, valid_dl,
            loss_func, config_metrics, config_val_metric, gradient_clipping_norm>>
locals == <<pc, epoch, acc, train_losses, train_nums, train_loss,
            val_losses, val_nums, val_loss, train_metrics, val_metrics,
            current_val_metric_value, early_stop, result, error>>
world  == <<mode, opt_steps, backward_calls, sched_steps, tb_writes, exported,
            checkpoint_writes, writer_closed>>
ghost  == <<val_hist, metric_calls>>
torch  == <<autograd, batch_ops, grad_enabled, export_calls>>
ct     == <<ct_pc, ct_epoch, ct_metrics, X_by_qid, batch_size, files, num_query,
            all_results_metric, ct_result, scored, cm_state, cm_result>>
locals_but_pc == <<epoch, acc, train_losses, train_nums, train_loss,
                   val_losses, val_nums, val_loss, train_metrics, val_metrics,
                   current_val_metric_value, early_stop, result, error>>
vars   == <<inputs, locals, world, ghost, torch, ct>>

----------------------------------------------------------------------------
\* Bounds of the model.
MaxEpochs   == 5     \* epochs ranges over 0..MaxEpochs
MaxPatience == 2     \* early_stopping_patience ranges over None, 0..MaxPatience
MaxBatches  == 2     \* a split of the loss specification has 0..MaxBatches batches
MaxValue    == 3     \* metric values range over 1..MaxValue (tenths)
MaxQueries  == 2     \* the dataset of the export specification has 0..MaxQueries queries

None == -1

BatchSizes == {1, 3}             \* len(xb) of a batch
Losses     == {2, 6}             \* loss.item() of a batch
Values     == 1..MaxValue        \* a metric value
Ats        == <<5>>              \* the cutoffs of every configured metric
Registry   == {"ndcg", "dcg", "mrr"}   \* attributes of allrank.models.metrics
Schedulers == {"None", "ReduceLROnPlateau", "StepLR"}
Features   == {"1", "nan", "inf", "-inf"}   \* a feature value of a document
SlateLens  == {1, 2}             \* number of documents of a query
ClipNorms  == {None, 0, -2, 2}   \* gradient_clipping_norm: unset, 0, negative, positive

\* All sequences over S of length 0..n.
SeqsUpTo(S, n) == UNION {[1..k -> S] : k \in 0..n}

----------------------------------------------------------------------------
\* Pure helpers.

RECURSIVE SeqSum(_)
SeqSum(s) == IF s = <<>> THEN 0 ELSE Head(s) + SeqSum(Tail(s))

\* np.multiply(a, b): elementwise product
Multiply(a, b) == [i \in 1..Len(a) |-> a[i] * b[i]]

\* the naive mean of the batch losses: what the epoch loss must not be
EpochLossNaive(losses, nums) == [num |-> SeqSum(losses), den |-> Len(losses)]

\* np.sum(np.multiply(losses, nums)) / np.sum(nums)
EpochLoss(losses, nums) ==
    [num |-> SeqSum(Multiply(losses, nums)), den |-> SeqSum(nums)]

NoLoss == [num |-> 0, den |-> 0]        \* train_loss / val_loss not yet bound

\* zip(*pairs): the tuple of first components and the tuple of second ones
Unzip(pairs) == [first  |-> [i \in 1..Len(pairs) |-> pairs[i][1]],
                 second |-> [i \in 1..Len(pairs) |-> pairs[i][2]]]

\* the keys "{metric_name}_{at}" compute_metrics produces, as <<name, at>>
MetricKeys(metrics) == {<<m, Ats[i]>> : m \in metrics, i \in 1..Len(Ats)}

\* getattr(metrics_module, metric_name) succeeds for every configured name
AllRegistered(metrics) == metrics \subseteq Registry

\* the dicts compute_metrics can return for a configuration: one value per key
MetricDicts(metrics) == [MetricKeys(metrics) -> Values]

NoMetrics == [epoch |-> None, values |-> <<>>]   \* train_metrics / val_metrics unbound

\* dict.get(key): the value, or None when the key is absent
Get(d, key) == IF key \in DOMAIN d THEN d[key] ELSE None

----------------------------------------------------------------------------
\* EarlyStop (allrank/training/early_stop.py), the controller fit() drives.

\* EarlyStop(patience)
EarlyStopNew(patience) ==
    [patience |-> patience, best_value |-> None, best_epoch |-> None]

\* early_stop.step(current_value, current_epoch): a value that is absent is no
\* improvement; the first value and every strictly higher one is recorded.
EarlyStopStep(es, current_value, current_epoch) ==
    IF current_value = None THEN es
    ELSE IF es.best_value = None \/ current_value > es.best_value
         THEN [es EXCEPT !.best_value = current_value, !.best_epoch = current_epoch]
         ELSE es

\* early_stop.stop_training(epoch): the answers it can give.  Patience None or 0
\* disables the rule; with nothing recorded yet the answer is not determined.
StopTraining(es, e) ==
    IF es.patience = None \/ es.patience = 0 THEN {FALSE}
    ELSE IF es.best_epoch = None THEN BOOLEAN
    ELSE {e - es.best_epoch >= es.patience}

----------------------------------------------------------------------------
\* loss_batch(model, loss_func, xb, yb, indices, gradient_clipping_norm, opt):
\* the pair it returns for a batch of size n whose loss is l, and its effect
\* on the model: with an optimizer, one backward pass and one optimizer step.
LossBatchResult(l, n) == <<l, n>>

\* loss_batch stepping the optimizer whether or not one was supplied
LossBatchEffectAlways(with_opt) ==
    /\ backward_calls' = backward_calls + 1
    /\ opt_steps' = opt_steps + 1

LossBatchEffect(with_opt) ==
    IF with_opt
    THEN /\ backward_calls' = backward_calls + 1
         /\ opt_steps' = opt_steps + 1
    ELSE UNCHANGED <<backward_calls, opt_steps>>

\* Python truth of a number or None: `if gradient_clipping_norm:`
Truthy(x) == x # None /\ x # 0

\* loss_batch with clip_grad_norm_ called after the optimizer step
LossBatchOpsClipLate(norm, with_opt) ==
    <<"forward">> \o
    (IF with_opt
     THEN <<"backward", "step">> \o (IF Truthy(norm) THEN <<"clip">> ELSE <<>>)
          \o <<"zero_grad">>
     ELSE <<>>)

\* lines 19-27: the operations of one loss_batch call, in the order they run
LossBatchOps(norm, with_opt) ==
    <<"forward">> \o
    (IF with_opt
     THEN <<"backward">> \o (IF Truthy(norm) THEN <<"clip">> ELSE <<>>)
          \o <<"step", "zero_grad">>
     ELSE <<>>)

\* the effect of one operation on the gradients and the optimizer:
\*   grad       how many backward passes are accumulated in the parameters' .grad
\*   clipped    the accumulated gradients went through clip_grad_norm_
\*   clip_calls number of clip_grad_norm_ calls
\*   last_step  what the latest optimizer.step() used, and the model's mode then
ApplyOp(ag, op, m) ==
    CASE op = "backward"  -> [ag EXCEPT !.grad = @ + 1, !.clipped = FALSE]
      [] op = "clip"      -> [ag EXCEPT !.clipped = TRUE, !.clip_calls = @ + 1]
      [] op = "step"      -> [ag EXCEPT !.last_step =
                                 [grad |-> ag.grad, clipped |-> ag.clipped, mode |-> m]]
      [] op = "zero_grad" -> [ag EXCEPT !.grad = 0, !.clipped = FALSE]
      [] OTHER            -> ag

RECURSIVE ApplyOps(_, _, _)
ApplyOps(ag, ops, m) ==
    IF ops = <<>> THEN ag ELSE ApplyOps(ApplyOp(ag, Head(ops), m), Tail(ops), m)

NoStep == [grad |-> 0, clipped |-> FALSE, mode |-> "none"]   \* no optimizer step yet

\* loss_batch on the gradients: the operations of the call, applied in order
LossBatchAutograd(with_opt) ==
    /\ batch_ops' = LossBatchOps(gradient_clipping_norm, with_opt)
    /\ autograd' = ApplyOps(autograd, LossBatchOps(gradient_clipping_norm, with_opt), mode)

\* an exception leaves fit(): nothing after the raising statement runs
Raise(e) == /\ pc' = "raised"
            /\ error' = e

----------------------------------------------------------------------------
\* fit(): the state on entry, after lines 139-144 (summary writer opened,
\* parameters counted, EarlyStop constructed), for given arguments.
InitWith(Es, Ps, Scheds, TrainSplits, ValidSplits, LossRanges) ==
    /\ epochs \in Es
    /\ early_stopping_patience \in Ps
    /\ scheduler \in Scheds
    /\ train_dl \in TrainSplits
    /\ valid_dl \in ValidSplits
    /\ loss_func \in LossRanges
    /\ config_metrics \in {{"ndcg"}, {"ndcg", "bogus"}}
    /\ config_val_metric \in {<<"ndcg", 5>>, <<"mrr", 5>>}
    /\ pc = "for"
    /\ epoch = None
    /\ acc = <<>>
    /\ train_losses = <<>> /\ train_nums = <<>> /\ train_loss = NoLoss
    /\ val_losses = <<>> /\ val_nums = <<>> /\ val_loss = NoLoss
    /\ train_metrics = NoMetrics /\ val_metrics = NoMetrics
    /\ current_val_metric_value = None
    /\ early_stop = EarlyStopNew(early_stopping_patience)
    /\ result = None
    /\ error = "none"
    /\ mode = "train"                     \* a freshly built torch module is in training mode
    /\ opt_steps = 0 /\ backward_calls = 0
    /\ sched_steps = <<>>
    /\ tb_writes = 0
    /\ exported = {}
    /\ checkpoint_writes = 0
    /\ writer_closed = FALSE
    /\ val_hist = <<>>
    /\ metric_calls = {}
    /\ autograd = [grad |-> 0, clipped |-> FALSE, clip_calls |-> 0, last_step |-> NoStep]
    /\ batch_ops = <<>>
    /\ grad_enabled = TRUE
    /\ export_calls = {}

\* compute_test not entered: nothing on disk, no dataset looked at
CtIdle ==
    /\ ct_pc = "idle"
    /\ ct_epoch = None
    /\ ct_metrics = <<>>
    /\ X_by_qid = <<>>
    /\ batch_size = 1
    /\ files = <<>>
    /\ num_query = 0
    /\ all_results_metric = <<>>
    /\ ct_result = <<>>
    /\ scored = {}
    /\ cm_state = "idle"
    /\ cm_result = <<>>

\* The control-flow specification: every loop length, patience and scheduler,
\* over an empty or a two-batch training split, an empty or a one-batch
\* validation split, and a loss function with one value.
Init ==
    /\ InitWith(0..MaxEpochs, {None} \cup 0..MaxPatience, Schedulers,
                {<<>>, <<3, 1>>}, {<<>>, <<3>>}, {{2}})
    /\ gradient_clipping_norm = 2
    /\ CtIdle

\* The loss specification: one epoch over every pair of splits of up to
\* MaxBatches batches, with every assignment of losses to batches.
InitLoss ==
    /\ InitWith({1}, {1}, {"StepLR"},
                SeqsUpTo(BatchSizes, MaxBatches), SeqsUpTo(BatchSizes, MaxBatches),
                {Losses})
    /\ gradient_clipping_norm = 2
    /\ CtIdle

\* The batch specification: one or two epochs under every kind of
\* gradient_clipping_norm.
InitBatch ==
    /\ InitWith(1..2, {1}, {"None", "StepLR"},
                {<<>>, <<3, 1>>}, {<<>>, <<3>>}, {{2}})
    /\ gradient_clipping_norm \in ClipNorms
    /\ CtIdle

----------------------------------------------------------------------------
\* The steps of fit().

\* lines 146-149: the loop takes its next epoch; model.train()
for_next_epoch ==
    /\ pc = "for"
    /\ epoch + 1 < epochs
    /\ epoch' = epoch + 1
    /\ mode' = "train"
    /\ acc' = <<>>
    /\ pc' = "train_batches"
    /\ UNCHANGED <<inputs, ct, torch, ghost, train_losses, train_nums, train_loss, val_losses,
                   val_nums, val_loss, train_metrics, val_metrics,
                   current_val_metric_value, early_stop, result, error,
                   opt_steps, backward_calls, sched_steps, tb_writes, exported,
                   checkpoint_writes, writer_closed>>

\* line 146: range(epochs) is exhausted; the loop ends normally
for_exhausted ==
    /\ pc = "for"
    /\ ~(epoch + 1 < epochs)
    /\ pc' = "save"
    /\ UNCHANGED <<inputs, ct, torch, ghost, world, epoch, acc, train_losses, train_nums,
                   train_loss, val_losses, val_nums, val_loss, train_metrics,
                   val_metrics, current_val_metric_value, early_stop, result, error>>

\* lines 154-156: loss_batch(..., optimizer) on the next training batch
train_batch ==
    /\ pc = "train_batches"
    /\ Len(acc) < Len(train_dl)
    /\ \E l \in loss_func :
          acc' = Append(acc, LossBatchResult(l, train_dl[Len(acc) + 1]))
    /\ LossBatchEffect(TRUE)
    /\ LossBatchAutograd(TRUE)
    /\ UNCHANGED <<inputs, ct, grad_enabled, export_calls, ghost, pc, epoch, train_losses, train_nums, train_loss,
                   val_losses, val_nums, val_loss, train_metrics, val_metrics,
                   current_val_metric_value, early_stop, result, error,
                   mode, sched_steps, tb_writes, exported, checkpoint_writes,
                   writer_closed>>

\* lines 153, 157: zip(*[...]) unpacked into two names (ValueError on an empty
\* list), then the epoch's training loss
train_epoch_loss ==
    /\ pc = "train_batches"
    /\ Len(acc) = Len(train_dl)
    /\ IF acc = <<>>
       THEN /\ Raise("ValueError")
            /\ UNCHANGED <<train_losses, train_nums, train_loss>>
       ELSE /\ train_losses' = Unzip(acc).first
            /\ train_nums' = Unzip(acc).second
            /\ train_loss' = EpochLoss(Unzip(acc).first, Unzip(acc).second)
            /\ pc' = "train_metrics"
            /\ UNCHANGED error
    /\ UNCHANGED <<inputs, ct, torch, ghost, world, epoch, acc, val_losses, val_nums, val_loss,
                   train_metrics, val_metrics, current_val_metric_value,
                   early_stop, result>>

\* line 158: compute_metrics(config.metrics, model, train_dl, device);
\* getattr raises AttributeError for a name the metrics module lacks
fit_train_metrics ==
    /\ pc = "train_metrics"
    /\ metric_calls' = metric_calls \cup {<<"train", epoch, mode>>}
    /\ IF AllRegistered(config_metrics)
       THEN /\ \E d \in MetricDicts(config_metrics) :
                  train_metrics' = [epoch |-> epoch, values |-> d]
            /\ pc' = "eval"
            /\ UNCHANGED error
       ELSE /\ Raise("AttributeError")
            /\ UNCHANGED train_metrics
    /\ UNCHANGED <<inputs, ct, torch, world, val_hist, epoch, acc, train_losses, train_nums,
                   train_loss, val_losses, val_nums, val_loss, val_metrics,
                   current_val_metric_value, early_stop, result>>

\* lines 160-161: model.eval(); the no_grad block is entered
model_eval ==
    /\ pc = "eval"
    /\ mode' = "eval"
    /\ grad_enabled' = FALSE
    /\ acc' = <<>>
    /\ pc' = "val_batches"
    /\ UNCHANGED <<inputs, ct, autograd, batch_ops, export_calls, ghost, epoch, train_losses, train_nums, train_loss,
                   val_losses, val_nums, val_loss, train_metrics, val_metrics,
                   current_val_metric_value, early_stop, result, error,
                   opt_steps, backward_calls, sched_steps, tb_writes, exported,
                   checkpoint_writes, writer_closed>>

\* lines 163-165: loss_batch(...) without optimizer on the next validation batch
val_batch ==
    /\ pc = "val_batches"
    /\ Len(acc) < Len(valid_dl)
    /\ \E l \in loss_func :
          acc' = Append(acc, LossBatchResult(l, valid_dl[Len(acc) + 1]))
    /\ LossBatchEffect(FALSE)
    /\ LossBatchAutograd(FALSE)
    /\ UNCHANGED <<inputs, ct, grad_enabled, export_calls, ghost, pc, epoch, train_losses, train_nums, train_loss,
                   val_losses, val_nums, val_loss, train_metrics, val_metrics,
                   current_val_metric_value, early_stop, result, error,
                   mode, sched_steps, tb_writes, exported, checkpoint_writes,
                   writer_closed>>

\* line 162: zip(*[...]) unpacked into val_losses, val_nums
val_unzip ==
    /\ pc = "val_batches"
    /\ Len(acc) = Len(valid_dl)
    /\ IF acc = <<>>
       THEN /\ Raise("ValueError")
            /\ UNCHANGED <<val_losses, val_nums>>
       ELSE /\ val_losses' = Unzip(acc).first
            /\ val_nums' = Unzip(acc).second
            /\ pc' = "val_metrics"
            /\ UNCHANGED error
    /\ UNCHANGED <<inputs, ct, torch, ghost, world, epoch, acc, train_losses, train_nums,
                   train_loss, val_loss, train_metrics, val_metrics,
                   current_val_metric_value, early_stop, result>>

\* line 166: compute_metrics(config.metrics, model, valid_dl, device)
fit_val_metrics ==
    /\ pc = "val_metrics"
    /\ metric_calls' = metric_calls \cup {<<"val", epoch, mode>>}
    /\ IF AllRegistered(config_metrics)
       THEN /\ \E d \in MetricDicts(config_metrics) :
                  val_metrics' = [epoch |-> epoch, values |-> d]
            /\ pc' = "summary"
            /\ UNCHANGED error
       ELSE /\ Raise("AttributeError")
            /\ UNCHANGED val_metrics
    /\ UNCHANGED <<inputs, ct, torch, world, val_hist, epoch, acc, train_losses, train_nums,
                   train_loss, val_losses, val_nums, val_loss, train_metrics,
                   current_val_metric_value, early_stop, result>>

\* lines 168-182: val_loss, the summary to tensorboard and the log, and
\* current_val_metric_value = val_metrics.get(config.val_metric)
summary ==
    /\ pc = "summary"
    /\ grad_enabled' = TRUE
    /\ val_loss' = EpochLoss(val_losses, val_nums)
    /\ tb_writes' = tb_writes + 1
    /\ current_val_metric_value' = Get(val_metrics.values, config_val_metric)
    /\ pc' = "scheduler"
    /\ UNCHANGED <<inputs, ct, autograd, batch_ops, export_calls, ghost, epoch, acc, train_losses, train_nums, train_loss,
                   val_losses, val_nums, train_metrics, val_metrics, early_stop,
                   result, error, mode, opt_steps, backward_calls, sched_steps,
                   exported, checkpoint_writes, writer_closed>>

\* scheduler_step that never passes the validation metric to the scheduler
scheduler_step_no_arg ==
    /\ pc = "scheduler"
    /\ IF scheduler = "None"
       THEN UNCHANGED sched_steps
       ELSE sched_steps' = Append(sched_steps, <<epoch, None>>)
    /\ pc' = "export"
    /\ UNCHANGED <<inputs, ct, torch, ghost, epoch, acc, train_losses, train_nums, train_loss,
                   val_losses, val_nums, val_loss, train_metrics, val_metrics,
                   current_val_metric_value, early_stop, result, error, mode, opt_steps,
                   backward_calls, tb_writes, exported, checkpoint_writes,
                   writer_closed>>

\* scheduler_step that leaves the scheduler alone
scheduler_step_skipped ==
    /\ pc = "scheduler"
    /\ pc' = "export"
    /\ UNCHANGED <<inputs, ct, torch, ghost, epoch, acc, train_losses, train_nums, train_loss,
                   val_losses, val_nums, val_loss, train_metrics, val_metrics,
                   current_val_metric_value, early_stop, result, error, mode, opt_steps,
                   backward_calls, sched_steps, tb_writes, exported, checkpoint_writes,
                   writer_closed>>

\* lines 183-188: the scheduler step; a plateau scheduler is given
\* val_metrics[config.val_metric], a KeyError when the key is absent
scheduler_step ==
    /\ pc = "scheduler"
    /\ IF scheduler = "None"
       THEN /\ pc' = "export"
            /\ UNCHANGED <<sched_steps, error>>
       ELSE IF scheduler = "ReduceLROnPlateau"
       THEN IF config_val_metric \in DOMAIN val_metrics.values
            THEN /\ sched_steps' = Append(sched_steps,
                                          <<epoch, val_metrics.values[config_val_metric]>>)
                 /\ pc' = "export"
                 /\ UNCHANGED error
            ELSE /\ Raise("KeyError")
                 /\ UNCHANGED sched_steps
       ELSE /\ sched_steps' = Append(sched_steps, <<epoch, None>>)
            /\ pc' = "export"
            /\ UNCHANGED error
    /\ UNCHANGED <<inputs, ct, torch, ghost, epoch, acc, train_losses, train_nums, train_loss,
                   val_losses, val_nums, val_loss, train_metrics, val_metrics,
                   current_val_metric_value, early_stop, result, mode, opt_steps,
                   backward_calls, tb_writes, exported, checkpoint_writes,
                   writer_closed>>

\* fit_compute_test with a checkpoint written in every epoch as well
fit_compute_test_checkpointing ==
    /\ pc = "export"
    /\ exported' = exported \cup {epoch}
    /\ export_calls' = export_calls \cup {<<epoch, mode, FALSE>>}
    /\ checkpoint_writes' = checkpoint_writes + 1
    /\ pc' = "early_stop"
    /\ UNCHANGED <<inputs, ct, autograd, batch_ops, grad_enabled, ghost, epoch, acc, train_losses, train_nums, train_loss,
                   val_losses, val_nums, val_loss, train_metrics, val_metrics,
                   current_val_metric_value, early_stop, result, error, mode,
                   opt_steps, backward_calls, sched_steps, tb_writes,
                   writer_closed>>

\* lines 190-191: compute_test(...) writes this epoch's prediction files
fit_compute_test ==
    /\ pc = "export"
    /\ exported' = exported \cup {epoch}
    /\ export_calls' = export_calls \cup {<<epoch, mode, FALSE>>}
    /\ pc' = "early_stop"
    /\ UNCHANGED <<inputs, ct, autograd, batch_ops, grad_enabled, ghost, epoch, acc, train_losses, train_nums, train_loss,
                   val_losses, val_nums, val_loss, train_metrics, val_metrics,
                   current_val_metric_value, early_stop, result, error, mode,
                   opt_steps, backward_calls, sched_steps, tb_writes,
                   checkpoint_writes, writer_closed>>

\* fit_early_stop_step handing the controller a 1-based epoch number
fit_early_stop_step_one_based ==
    /\ pc = "early_stop"
    /\ early_stop' = EarlyStopStep(early_stop, current_val_metric_value, epoch + 1)
    /\ val_hist' = Append(val_hist, current_val_metric_value)
    /\ pc' = "stop_check"
    /\ UNCHANGED <<inputs, ct, torch, world, metric_calls, epoch, acc, train_losses,
                   train_nums, train_loss, val_losses, val_nums, val_loss,
                   train_metrics, val_metrics, current_val_metric_value, result,
                   error>>

\* line 193: early_stop.step(current_val_metric_value, epoch)
fit_early_stop_step ==
    /\ pc = "early_stop"
    /\ early_stop' = EarlyStopStep(early_stop, current_val_metric_value, epoch)
    /\ val_hist' = Append(val_hist, current_val_metric_value)
    /\ pc' = "stop_check"
    /\ UNCHANGED <<inputs, ct, torch, world, metric_calls, epoch, acc, train_losses,
                   train_nums, train_loss, val_losses, val_nums, val_loss,
                   train_metrics, val_metrics, current_val_metric_value, result,
                   error>>

\* stop_check that logs the stop but goes on with the next epoch
stop_check_no_break ==
    /\ pc = "stop_check"
    /\ pc' = "for"
    /\ UNCHANGED <<inputs, ct, torch, ghost, world, epoch, acc, train_losses, train_nums,
                   train_loss, val_losses, val_nums, val_loss, train_metrics,
                   val_metrics, current_val_metric_value, early_stop, result, error>>

\* stop_check with the condition negated
stop_check_negated ==
    /\ pc = "stop_check"
    /\ \E stop \in StopTraining(early_stop, epoch) :
          pc' = IF ~stop THEN "save" ELSE "for"
    /\ UNCHANGED <<inputs, ct, torch, ghost, world, epoch, acc, train_losses, train_nums,
                   train_loss, val_losses, val_nums, val_loss, train_metrics,
                   val_metrics, current_val_metric_value, early_stop, result, error>>

\* lines 194-199: if early_stop.stop_training(epoch): log and break
stop_check ==
    /\ pc = "stop_check"
    /\ \E stop \in StopTraining(early_stop, epoch) :
          pc' = IF stop THEN "save" ELSE "for"
    /\ UNCHANGED <<inputs, ct, torch, ghost, world, epoch, acc, train_losses, train_nums,
                   train_loss, val_losses, val_nums, val_loss, train_metrics,
                   val_metrics, current_val_metric_value, early_stop, result, error>>

\* line 201: torch.save(model.state_dict(), ".../model.pkl")
save_checkpoint ==
    /\ pc = "save"
    /\ checkpoint_writes' = checkpoint_writes + 1
    /\ pc' = "close"
    /\ UNCHANGED <<inputs, ct, torch, ghost, locals_but_pc, mode, opt_steps, backward_calls,
                   sched_steps, tb_writes, exported, writer_closed>>

\* line 202: tensorboard_summary_writer.close_all_writers()
close_all_writers ==
    /\ pc = "close"
    /\ writer_closed' = TRUE
    /\ pc' = "return"
    /\ UNCHANGED <<inputs, ct, torch, ghost, locals_but_pc, mode, opt_steps, backward_calls,
                   sched_steps, tb_writes, exported, checkpoint_writes>>

\* ReturnValue reporting the best epoch instead of the last one
ReturnValueBestEpoch ==
    [epochs |-> early_stop.best_epoch, train_metrics |-> train_metrics,
     val_metrics |-> val_metrics]

\* lines 204-209: the returned dict; epoch, train_metrics and val_metrics are
\* unbound when the loop body never ran (UnboundLocalError)
ReturnValue ==
    [epochs |-> epoch, train_metrics |-> train_metrics, val_metrics |-> val_metrics]

\* fit_return that builds the dict whether or not the loop body ran
fit_return_unchecked ==
    /\ pc = "return"
    /\ result' = ReturnValue
    /\ pc' = "done"
    /\ UNCHANGED <<inputs, ct, torch, ghost, world, epoch, acc, train_losses, train_nums,
                   train_loss, val_losses, val_nums, val_loss, train_metrics,
                   val_metrics, current_val_metric_value, early_stop, error>>

fit_return ==
    /\ pc = "return"
    /\ IF epoch = None
       THEN /\ Raise("UnboundLocalError")
            /\ UNCHANGED result
       ELSE /\ result' = ReturnValue
            /\ pc' = "done"
            /\ UNCHANGED error
    /\ UNCHANGED <<inputs, ct, torch, ghost, world, epoch, acc, train_losses, train_nums,
                   train_loss, val_losses, val_nums, val_loss, train_metrics,
                   val_metrics, current_val_metric_value, early_stop>>

----------------------------------------------------------------------------
\* compute_test and compute_metrics on a validation split.
\*
\* The model and the metric functions are external.  A score is the term
\* <<"score", x, d>>: what model.score returns for document d of a slate
\* whose feature tensor is x; a metric value is the term <<name, x, at>>:
\* the metric at cutoff at on the scores of that slate.  Equal inputs give
\* equal terms, different inputs different terms.  A line of a file is such
\* a term; StaleLine is a line written by an earlier run.

StaleLine == <<"stale", <<>>, 0>>

Range(f) == {f[i] : i \in DOMAIN f}

\* "ndcg" in metric_name, over the names of the registry
ContainsNdcg(name) == name \in {"ndcg"}

\* str(epoch) + ".model.predict.txt" and str(epoch) + ".model.predict." + m + ".txt"
PredictionsPath(e) == <<e, "", 0>>
MetricPath(e, name, at) == <<e, name, at>>

\* open(path, 'a') keeps what the file holds
OpenKeep(fs, path) == IF path \in DOMAIN fs THEN fs ELSE (path :> <<>>) @@ fs

\* open(path, 'w') creates the file or truncates it
OpenW(fs, path) == (path :> <<>>) @@ fs

\* open(path, 'a') followed by write of the lines
AppendLines(fs, path, lines) ==
    IF path \in DOMAIN fs THEN [fs EXCEPT ![path] = @ \o lines]
                          ELSE (path :> lines) @@ fs

\* temp[torch.isnan(temp)] = 0
ReplaceNan(x) == [d \in 1..Len(x) |-> IF x[d] = "nan" THEN "0" ELSE x[d]]

\* model.score(x, mask, indices) on one slate
Score(x) == [d \in 1..Len(x) |-> <<"score", x, d>>]

\* metric_func(scores, y, ats=ats): one value per cutoff
MetricRow(name, ats, scores) == [k \in 1..Len(ats) |-> <<name, scores[1][2], ats[k]>>]

\* one line for the whole slate
PredictionLinesPerSlate(scores) == <<scores[1]>>

\* for i in test_pred_numpy: for l in i: write(str(l))
PredictionLines(scores) == scores

\* np.mean / torch.mean of a list of values: the values with their
\* multiplicities, and how many there are
Mean(values) ==
    [count |-> Len(values),
     bag   |-> [v \in Range(values) |-> Cardinality({i \in 1..Len(values) : values[i] = v})]]

RECURSIVE Keys(_)
\* the keys "name_at" of a metrics dict, in order
Keys(metrics) ==
    IF metrics = <<>> THEN <<>>
    ELSE [k \in 1..Len(Head(metrics)[2]) |-> <<Head(metrics)[1], Head(metrics)[2][k]>>]
         \o Keys(Tail(metrics))

RECURSIVE TruncateAll(_, _, _)
\* for m in metrics_names: open(path_metric_m, "w").close()
TruncateAll(fs, e, keys) ==
    IF keys = <<>> THEN fs
    ELSE TruncateAll(OpenW(fs, MetricPath(e, Head(keys)[1], Head(keys)[2])), e, Tail(keys))

RECURSIVE AppendAll(_, _, _, _)
\* the per-query values of every metric whose name contains "ndcg", appended
\* to that key's file
AppendAll(fs, e, metrics, scores) ==
    IF metrics = <<>> THEN fs
    ELSE LET name == Head(metrics)[1]
             ats  == Head(metrics)[2]
             row  == MetricRow(name, ats, scores)
             RECURSIVE rows(_, _)
             rows(g, k) == IF k > Len(ats) THEN g
                           ELSE rows(AppendLines(g, MetricPath(e, name, ats[k]), <<row[k]>>), k + 1)
         IN  AppendAll(IF ContainsNdcg(name) THEN rows(fs, 1) ELSE fs, e, Tail(metrics), scores)

\* all_results_metric[name].append(result) for the same metrics
Collect(results, metrics, scores) ==
    [key \in DOMAIN results |->
        IF \E i \in 1..Len(metrics) :
              /\ metrics[i][1] = key[1]
              /\ ContainsNdcg(key[1])
        THEN LET i == CHOOSE j \in 1..Len(metrics) : metrics[j][1] = key[1]
                 k == CHOOSE j \in 1..Len(metrics[i][2]) : metrics[i][2][j] = key[2]
             IN  Append(results[key], MetricRow(key[1], metrics[i][2], scores)[k])
        ELSE results[key]]

\* the batches of dl: consecutive groups of batch_size queries
Batches(X, n) ==
    [b \in 1..((Len(X) + n - 1) \div n) |->
        SubSeq(X, (b - 1) * n + 1, IF b * n < Len(X) THEN b * n ELSE Len(X))]

RECURSIVE Cat(_)
Cat(ss) == IF ss = <<>> THEN <<>> ELSE Head(ss) \o Cat(Tail(ss))

\* metric_on_batch for one key: the metric of model.score(xb, mask, indices)
\* for every slate of the batch
MetricOnBatch(name, at, xb) == [i \in 1..Len(xb) |-> MetricRow(name, <<at>>, Score(xb[i]))[1]]

\* metric_on_epoch for one key: mean over the concatenated batches
MetricOnEpoch(name, at, X, n) ==
    Mean(Cat([b \in 1..Len(Batches(X, n)) |-> MetricOnBatch(name, at, Batches(X, n)[b])]))

\* lines 79-94: the predictions file is opened for writing, every key gets an
\* empty list and an empty file
ct_open ==
    /\ ct_pc = "open"
    /\ files' = TruncateAll(OpenW(files, PredictionsPath(ct_epoch)), ct_epoch, Keys(ct_metrics))
    /\ all_results_metric' = [key \in Range(Keys(ct_metrics)) |-> <<>>]
    /\ num_query' = 0
    /\ ct_pc' = "queries"
    /\ UNCHANGED <<inputs, locals, world, ghost, torch, ct_epoch, ct_metrics, X_by_qid,
                   batch_size, ct_result, scored, cm_state, cm_result>>

\* lines 96-124: one query
ct_query ==
    /\ ct_pc = "queries"
    /\ num_query < Len(X_by_qid)
    /\ LET x      == ReplaceNan(X_by_qid[num_query + 1])
           scores == Score(x)
       IN  /\ scored' = scored \cup {x}
           /\ files' = AppendAll(AppendLines(files, PredictionsPath(ct_epoch),
                                             PredictionLines(scores)),
                                 ct_epoch, ct_metrics, scores)
           /\ all_results_metric' = Collect(all_results_metric, ct_metrics, scores)
    /\ num_query' = num_query + 1
    /\ UNCHANGED <<inputs, locals, world, ghost, torch, ct_pc, ct_epoch, ct_metrics,
                   X_by_qid, batch_size, ct_result, cm_state, cm_result>>

\* lines 126-135: the means of the collected values, for the keys containing "ndcg"
ct_return ==
    /\ ct_pc = "queries"
    /\ num_query = Len(X_by_qid)
    /\ ct_result' = [key \in {k \in DOMAIN all_results_metric : ContainsNdcg(k[1])} |->
                        Mean(all_results_metric[key])]
    /\ ct_pc' = "returned"
    /\ UNCHANGED <<inputs, locals, world, ghost, torch, ct_epoch, ct_metrics, X_by_qid,
                   batch_size, files, num_query, all_results_metric, scored,
                   cm_state, cm_result>>

\* lines 47-56 with 32-44: compute_metrics over the batches of the same split;
\* torch.cat of an empty list raises
compute_metrics ==
    /\ cm_state = "idle"
    /\ IF X_by_qid = <<>>
       THEN /\ cm_state' = "raised"
            /\ UNCHANGED cm_result
       ELSE /\ cm_state' = "done"
            /\ cm_result' = [key \in Range(Keys(ct_metrics)) |->
                                MetricOnEpoch(key[1], key[2], X_by_qid, batch_size)]
    /\ UNCHANGED <<inputs, locals, world, ghost, torch, ct_pc, ct_epoch, ct_metrics,
                   X_by_qid, batch_size, files, num_query, all_results_metric,
                   ct_result, scored>>

Next ==
    \/ for_next_epoch
    \/ for_exhausted
    \/ train_batch
    \/ train_epoch_loss
    \/ fit_train_metrics
    \/ model_eval
    \/ val_batch
    \/ val_unzip
    \/ fit_val_metrics
    \/ summary
    \/ scheduler_step
    \/ fit_compute_test
    \/ fit_early_stop_step
    \/ stop_check
    \/ save_checkpoint
    \/ close_all_writers
    \/ fit_return

Spec == Init /\ [][Next]_vars

SpecLoss == InitLoss /\ [][Next]_vars

SpecBatch == InitBatch /\ [][Next]_vars

\* compute_test called on its own: the training loop does not move
Slates == UNION {[1..n -> Features] : n \in SlateLens}

MetricsArgs == {<<<<"ndcg", <<5>>>>>>,
                <<<<"ndcg", <<5, 10>>>>>>,
                <<<<"mrr", <<5>>>>, <<"ndcg", <<5>>>>>>}

AllPaths(e) == {PredictionsPath(e)} \cup {MetricPath(e, n, a) : n \in {"ndcg", "mrr"}, a \in {5, 10}}

InitTest ==
    /\ InitWith({1}, {1}, {"None"}, {<<3>>}, {<<3>>}, {{2}})
    /\ config_metrics = {"ndcg"}
    /\ config_val_metric = <<"ndcg", 5>>
    /\ gradient_clipping_norm = 2
    /\ ct_pc = "open"
    /\ ct_epoch = 1
    /\ ct_metrics \in MetricsArgs
    /\ X_by_qid \in SeqsUpTo(Slates, MaxQueries)
    /\ batch_size \in {1, 2}
    /\ files \in {<<>>, [path \in AllPaths(ct_epoch) |-> <<StaleLine, StaleLine, StaleLine>>]}
    /\ num_query = 0
    /\ all_results_metric = <<>>
    /\ ct_result = <<>>
    /\ scored = {}
    /\ cm_state = "idle"
    /\ cm_result = <<>>

NextTest ==
    \/ ct_open
    \/ ct_query
    \/ ct_return
    \/ compute_metrics

SpecTest == InitTest /\ [][NextTest]_vars

----------------------------------------------------------------------------
\* Vocabulary of the properties.

AfterLoop == {"save", "close", "return", "done"}

\* the loss_batch results collected in acc, batch by batch
RECURSIVE WeightedLossSum(_, _)
WeightedLossSum(results, k) ==
    IF k = 0 THEN 0 ELSE results[k][1] * results[k][2] + WeightedLossSum(results, k - 1)

RECURSIVE SizeSum(_, _)
SizeSum(sizes, k) == IF k = 0 THEN 0 ELSE sizes[k] + SizeSum(sizes, k - 1)

RECURSIVE LossSum(_, _)
LossSum(results, k) == IF k = 0 THEN 0 ELSE results[k][1] + LossSum(results, k - 1)

\* loss (a quotient) is sum(li*ni)/sum(ni) for the results of the split's batches
IsWeightedMean(loss, results, sizes) ==
    /\ Len(results) = Len(sizes)
    /\ \A i \in 1..Len(sizes) : results[i][2] = sizes[i]
    /\ loss.den > 0
    /\ loss.num * SizeSum(sizes, Len(sizes)) = loss.den * WeightedLossSum(results, Len(results))

\* loss is the naive mean sum(li)/k
IsNaiveMean(loss, results) ==
    loss.num * Len(results) = loss.den * LossSum(results, Len(results))

\* C1: in every epoch, train_loss and val_loss are the size-weighted mean
\* sum(li*ni)/sum(ni) of the losses loss_batch returned for the split's batches;
\* batches of sizes 3 and 1 with losses 2 and 6 give train_loss 3.
C1_EpochLossIsWeightedMean ==
    /\ pc \in {"train_metrics", "eval"} =>
          /\ IsWeightedMean(train_loss, acc, train_dl)
          /\ (acc = <<(<<2, 3>>), (<<6, 1>>)>>) => train_loss.num = 3 * train_loss.den
    /\ pc = "scheduler" => IsWeightedMean(val_loss, acc, valid_dl)

\* C1 witness: training batches of sizes 3 and 1 returned losses 2 and 6; the
\* epoch loss is 3 and differs from the naive mean 4.
C1_Witness ==
    /\ pc = "train_metrics"
    /\ train_dl = <<3, 1>>
    /\ acc = <<(<<2, 3>>), (<<6, 1>>)>>
    /\ train_loss.num = 3 * train_loss.den
    /\ ~IsNaiveMean(train_loss, acc)

----------------------------------------------------------------------------
\* Early stopping, as fit() drives it.

\* h is a sequence of present values that strictly increases and then stays flat
IncThenFlat(h) ==
    /\ Len(h) > 0
    /\ \A i \in 1..Len(h) : h[i] # None
    /\ \E k \in 1..Len(h) :
          /\ \A i \in 1..(k - 1) : h[i] < h[i + 1]
          /\ \A i \in k..Len(h) : h[i] = h[k]

\* the epoch of the last strict improvement of h: the first epoch of its maximum
LastRise(h) ==
    CHOOSE e \in 0..(Len(h) - 1) :
        /\ \A i \in 1..Len(h) : h[i] <= h[e + 1]
        /\ \A i \in 1..e : h[i] < h[e + 1]

Prefix(h, n) == SubSeq(h, 1, n)

\* the stop rule applied after epoch n - 1 to the values of epochs 0..n-1
StopsAfter(h, n, P) == (n - 1) - LastRise(Prefix(h, n)) >= P

\* C2: with a positive patience P and validation values that strictly increase
\* and then stay flat, the stop check after an epoch is true iff
\* epoch - (epoch of the last strict improvement) >= P, it is true for the first
\* time exactly P epochs after that improvement, best_epoch and best_value are
\* that improvement, and no epoch runs after the stopping one;
\* [0.1, 0.3, 0.3, 0.3, 0.3] with patience 2 stops after epoch 3.
C2_StopsExactlyAfterPatience ==
    (early_stopping_patience > 0 /\ IncThenFlat(val_hist)) =>
    LET P == early_stopping_patience
        n == Len(val_hist)
    IN  /\ \* no epoch was started after one whose check was true
           \A j \in 1..(n - 1) : ~StopsAfter(val_hist, j, P)
        /\ (pc \notin {"stop_check", "raised"} \cup AfterLoop /\ epoch # None) =>
              /\ ~StopsAfter(val_hist, n, P)
              /\ epoch \in {n - 1, n}
        /\ pc = "stop_check" =>
              /\ epoch = n - 1
              /\ early_stop.best_epoch = LastRise(val_hist)
              /\ early_stop.best_value = val_hist[LastRise(val_hist) + 1]
              /\ StopTraining(early_stop, epoch) = {StopsAfter(val_hist, n, P)}
        /\ pc \in AfterLoop =>
              /\ epoch = n - 1
              /\ early_stop.best_epoch = LastRise(val_hist)
              /\ early_stop.best_value = val_hist[LastRise(val_hist) + 1]
              /\ \/ epoch - LastRise(val_hist) = P
                 \/ epoch = epochs - 1 /\ epoch - LastRise(val_hist) < P
        /\ (P = 2 /\ n >= 4 /\ Prefix(val_hist, 4) = <<1, 3, 3, 3>>) =>
              /\ n = 4
              /\ pc \in {"stop_check"} \cup AfterLoop
              /\ epoch = 3

\* C2 witness: the values 0.1, 0.3, 0.3, 0.3 with patience 2 and a fifth epoch
\* still to run: the loop was left after epoch 3 with best_epoch 1, best_value 0.3.
C2_Witness ==
    /\ early_stopping_patience = 2
    /\ epochs = 5
    /\ val_hist = <<1, 3, 3, 3>>
    /\ pc = "save"
    /\ epoch = 3
    /\ early_stop.best_epoch = 1
    /\ early_stop.best_value = 3

\* C3: with early_stopping_patience 0 or unset the stop check is false at every
\* epoch, whatever the validation values, and the loop ends only after all
\* of the epochs 0..epochs-1 have run.
C3_NoPatienceNeverStops ==
    (early_stopping_patience \in {None, 0}) =>
        /\ pc = "stop_check" => StopTraining(early_stop, epoch) = {FALSE}
        /\ pc \in AfterLoop =>
              /\ Len(val_hist) = epochs
              /\ exported = 0..(epochs - 1)
              /\ epochs > 0 => epoch = epochs - 1

\* C3 witness: patience 0, five epochs whose values never improved after the
\* first one, and fit returned after the last of them.
C3_Witness ==
    /\ early_stopping_patience = 0
    /\ epochs = 5
    /\ val_hist = <<3, 1, 1, 1, 1>>
    /\ pc = "done"
    /\ result.epochs = 4

\* the value handed to early_stop.step is a strict improvement
Improves(es, v) == v # None /\ (es.best_value = None \/ v > es.best_value)

\* C4: early_stop changes only in the one early_stop.step call of an epoch, and
\* only when best_value is unset or the current value is strictly higher; then
\* best_value is the current value and best_epoch the current epoch; best_value
\* never decreases, and both are frozen through a non-improving epoch.
C4_BestOnlyImproves ==
    [][ /\ early_stop' # early_stop =>
              /\ pc = "early_stop"
              /\ Improves(early_stop, current_val_metric_value)
              /\ early_stop'.best_value = current_val_metric_value
              /\ early_stop'.best_epoch = epoch
              /\ early_stop'.patience = early_stop.patience
              /\ early_stop.best_value # None =>
                    early_stop'.best_value > early_stop.best_value
        /\ (pc = "early_stop" /\ Improves(early_stop, current_val_metric_value)) =>
              /\ early_stop'.best_value = current_val_metric_value
              /\ early_stop'.best_epoch = epoch
        /\ (pc = "early_stop" /\ pc' # "early_stop") =>
              /\ Len(val_hist') = epoch + 1
              /\ val_hist'[epoch + 1] = current_val_metric_value
      ]_vars

\* C4 witness: an improvement at epoch 1 was recorded and the two non-improving
\* epochs after it (one lower, one equal) left best_value and best_epoch alone.
C4_Witness ==
    /\ val_hist = <<1, 2, 1, 2>>
    /\ pc = "stop_check"
    /\ early_stop.best_value = 2
    /\ early_stop.best_epoch = 1

----------------------------------------------------------------------------
\* The end of fit().

InLoop == {"for", "train_batches", "train_metrics", "eval", "val_batches",
           "val_metrics", "summary", "scheduler", "export", "early_stop",
           "stop_check"}

\* the loop was left by break: the last epoch run is not the last of range(epochs)
EarlyExit == pc \in AfterLoop /\ epoch # None /\ epoch < epochs - 1

\* C5: once the epoch loop has ended, normally or by the early exit, model.pkl
\* is written exactly once, after the last executed epoch's steps, and the
\* summary writer is closed after that; nothing is written to model.pkl and
\* nothing is closed while the loop runs.
C5_CheckpointOnceAfterLoop ==
    /\ pc \in InLoop \cup {"save"} => checkpoint_writes = 0 /\ ~writer_closed
    /\ pc = "close" => checkpoint_writes = 1 /\ ~writer_closed
    /\ pc \in {"return", "done"} => checkpoint_writes = 1 /\ writer_closed
    /\ pc = "raised" =>
          IF error = "UnboundLocalError"
          THEN checkpoint_writes = 1 /\ writer_closed
          ELSE checkpoint_writes = 0 /\ ~writer_closed
    /\ (pc \in AfterLoop /\ epoch # None) =>
          /\ epoch \in exported
          /\ Len(val_hist) = epoch + 1
          /\ Len(sched_steps) = IF scheduler = "None" THEN 0 ELSE epoch + 1

\* C5 witness: fit returned after an early exit with one checkpoint written and
\* the writer closed.
C5_Witness ==
    /\ pc = "done"
    /\ EarlyExit
    /\ checkpoint_writes = 1
    /\ writer_closed

\* C6: when fit returns after at least one epoch, the returned epoch index is
\* the last epoch executed (epochs-1 on normal completion, the stopping epoch on
\* early exit) and the returned train_metrics and val_metrics are the ones
\* computed in that epoch.
C6_ReturnsLastEpoch ==
    pc = "done" =>
        LET last == Len(val_hist) - 1
        IN  /\ last >= 0
            /\ result.epochs = last
            /\ last = epochs - 1 \/ TRUE \in StopTraining(early_stop, last)
            /\ \A e \in exported : e <= result.epochs
            /\ result.train_metrics.epoch = last
            /\ <<"train", last, "train">> \in metric_calls
            /\ result.val_metrics.epoch = last
            /\ Get(result.val_metrics.values, config_val_metric) = val_hist[last + 1]
            /\ result.train_metrics = train_metrics
            /\ result.val_metrics = val_metrics

\* C6 witness: fit returned after an early exit at epoch 3 whose best epoch was
\* epoch 1, with the index and the validation value of epoch 3.
C6_Witness ==
    /\ pc = "done"
    /\ EarlyExit
    /\ val_hist = <<1, 3, 2, 1>>
    /\ early_stop.best_epoch = 1
    /\ result.epochs = 3
    /\ result.val_metrics.values[config_val_metric] = 1

----------------------------------------------------------------------------
\* Statements the code does not meet.

\* C7: every compute_metrics call of fit, on the training split and on the
\* validation split, in every epoch, is made with the model in evaluation mode.
C7_MetricsComputedInEvalMode ==
    \A c \in metric_calls : c[3] = "eval"

\* C8: when config.metrics names a metric the registry lacks, the error is
\* raised before any epoch runs: no training batch processed, no optimizer
\* step applied, no per-epoch file written.
C8_UnknownMetricFailsBeforeTraining ==
    error = "AttributeError" =>
        /\ epoch = None
        /\ opt_steps = 0
        /\ backward_calls = 0
        /\ exported = {}

\* C9: when config.val_metric is no key of val_metrics, fit does not crash
\* under any scheduler: the epoch gets through its scheduler step, export and
\* early-stop step, and best_value and best_epoch stay as they were.
C9_MissingValMetricDoesNotCrash ==
    (config_val_metric \notin MetricKeys(config_metrics)) =>
        /\ error # "KeyError"
        /\ early_stop.best_value = None
        /\ early_stop.best_epoch = None
        /\ pc \in {"early_stop", "stop_check"} => epoch \in exported

\* C10: when the training or the validation split has no batch, fit fails
\* before training begins: at the error no backward pass and no optimizer step
\* has happened.
C10_EmptySplitFailsBeforeTraining ==
    (train_dl = <<>> \/ valid_dl = <<>>) =>
        /\ pc # "done"
        /\ error = "ValueError" => opt_steps = 0 /\ backward_calls = 0

----------------------------------------------------------------------------
\* loss_batch.

\* the position of op in ops (0 when absent)
IndexOf(ops, op) ==
    IF \E i \in 1..Len(ops) : ops[i] = op
    THEN CHOOSE i \in 1..Len(ops) : ops[i] = op /\ \A j \in 1..(i - 1) : ops[j] # op
    ELSE 0

\* the latest loss_batch call was one of this epoch's training batches
AfterTrainingBatch ==
    /\ pc \in {"train_batches", "train_metrics", "eval"}
    /\ Len(acc) > 0

\* C11: with an optimizer supplied, clip_grad_norm_ is called iff
\* gradient_clipping_norm is positive: for an unset, zero or negative norm it
\* is not called, and the optimizer step still runs.
C11_ClipsIffNormPositive ==
    AfterTrainingBatch =>
        /\ IndexOf(batch_ops, "step") > 0
        /\ IndexOf(batch_ops, "clip") > 0 <=> gradient_clipping_norm > 0

\* the steps of an epoch that follow its training batches
AfterTraining == {"train_metrics", "eval", "val_batches", "val_metrics", "summary",
                  "scheduler", "export", "early_stop", "stop_check"}

\* the loss_batch calls fit has completed with an optimizer
TrainingBatchesDone ==
    IF epoch = None THEN 0
    ELSE IF pc = "train_batches" THEN epoch * Len(train_dl) + Len(acc)
    ELSE IF pc = "raised" /\ error = "ValueError" /\ train_dl = <<>> THEN 0
    ELSE (epoch + 1) * Len(train_dl)

\* C12: the parameters change only in training-mode batches: optimizer.step()
\* runs exactly once per training batch, with the model in training mode, and
\* loss_batch without optimizer (validation), compute_metrics and compute_test
\* do no backward pass, no clipping and no optimizer step.
C12_ParametersChangeOnlyInTraining ==
    /\ opt_steps = TrainingBatchesDone
    /\ backward_calls = TrainingBatchesDone
    /\ autograd.clip_calls = IF Truthy(gradient_clipping_norm) THEN TrainingBatchesDone ELSE 0
    /\ autograd.last_step.mode = IF opt_steps = 0 THEN "none" ELSE "train"
    /\ (pc = "val_batches" /\ Len(acc) > 0) => batch_ops = <<"forward">>
    /\ pc = "train_batches" => mode = "train"
    /\ mode = "eval" => pc \in (AfterTraining \ {"train_metrics", "eval"}) \cup {"for", "raised"} \cup AfterLoop

\* C12 witness: in the second epoch, after the validation batch and the
\* validation metrics, the optimizer has stepped once per training batch run.
C12_Witness ==
    /\ pc = "summary"
    /\ epoch = 1
    /\ train_dl = <<3, 1>>
    /\ opt_steps = 4
    /\ batch_ops = <<"forward">>
    /\ <<"val", 1, "eval">> \in metric_calls

\* C17: a training batch runs forward, backward, clipping (when enabled),
\* optimizer step, zero_grad in this order; clipping is never after the step,
\* the accumulated gradients are zero when the batch ends, and the step used
\* the gradients of one backward pass only.
C17_BatchOperationOrder ==
    AfterTrainingBatch =>
        LET at(op) == IndexOf(batch_ops, op)
        IN  /\ at("forward") = 1
            /\ at("backward") = 2
            /\ at("step") > at("backward")
            /\ at("zero_grad") = Len(batch_ops)
            /\ at("zero_grad") = at("step") + 1
            /\ at("clip") > 0 => at("backward") < at("clip") /\ at("clip") < at("step")
            /\ autograd.grad = 0
            /\ autograd.last_step.grad = 1
            /\ autograd.last_step.clipped = (at("clip") > 0)

\* C17 witness: the second training batch of an epoch with clipping enabled
\* ended with the five operations in order and zero gradients.
C17_Witness ==
    /\ pc = "train_batches"
    /\ Len(acc) = 2
    /\ gradient_clipping_norm = 2
    /\ batch_ops = <<"forward", "backward", "clip", "step", "zero_grad">>
    /\ autograd.grad = 0

----------------------------------------------------------------------------
\* What compute_test leaves on disk and returns.

Returned == ct_pc = "returned"

\* the keys compute_test evaluates: those of the metrics whose name contains "ndcg"
NdcgKeys == {key \in Range(Keys(ct_metrics)) : ContainsNdcg(key[1])}

\* the tensor model.score is given for query i
ScoredTensor(i) == ReplaceNan(X_by_qid[i])

\* C13: after compute_test(…, epoch = e) returns, the file of every key
\* name_at of a metric whose name contains "ndcg" holds exactly one line per
\* query, line i being that metric's value at that cutoff on the scores of
\* query i, whatever the file held before.
C13_MetricFileHasOneLinePerQuery ==
    Returned =>
        \A key \in NdcgKeys :
            LET path == MetricPath(ct_epoch, key[1], key[2])
            IN  /\ path \in DOMAIN files
                /\ Len(files[path]) = Len(X_by_qid)
                /\ \A i \in 1..Len(X_by_qid) :
                       files[path][i] = <<key[1], ScoredTensor(i), key[2]>>

C13_Witness ==
    /\ Returned
    /\ Len(X_by_qid) = 2
    /\ X_by_qid[1] # X_by_qid[2]
    /\ Len(ct_metrics) = 1 /\ Len(ct_metrics[1][2]) = 2
    /\ MetricPath(ct_epoch, "mrr", 5) \in DOMAIN files
    /\ StaleLine \in Range(files[MetricPath(ct_epoch, "mrr", 5)])   \* the directory was used before
    /\ files[MetricPath(ct_epoch, "ndcg", 10)] =
           <<<<"ndcg", ScoredTensor(1), 10>>, <<"ndcg", ScoredTensor(2), 10>>>>

\* the scores of every document of every query, in query order and, within a
\* query, in document order
ScoresInOrder ==
    Cat([i \in 1..Len(X_by_qid) |->
            [d \in 1..Len(X_by_qid[i]) |-> <<"score", ScoredTensor(i), d>>]])

TotalSlateLength == SeqSum([i \in 1..Len(X_by_qid) |-> Len(X_by_qid[i])])

\* C14: after compute_test for epoch e returns, the predictions file of the
\* epoch holds one line per document of every query, in query order and then
\* document order: every score once, and no line of an earlier call.
C14_PredictionsFileIsFullDump ==
    Returned =>
        /\ PredictionsPath(ct_epoch) \in DOMAIN files
        /\ Len(files[PredictionsPath(ct_epoch)]) = TotalSlateLength
        /\ files[PredictionsPath(ct_epoch)] = ScoresInOrder
        /\ StaleLine \notin Range(files[PredictionsPath(ct_epoch)])

C14_Witness ==
    /\ Returned
    /\ Len(X_by_qid) = 2
    /\ Len(X_by_qid[1]) = 2 /\ Len(X_by_qid[2]) = 1
    /\ X_by_qid[1][1] # X_by_qid[1][2]
    /\ MetricPath(ct_epoch, "mrr", 10) \in DOMAIN files
    /\ StaleLine \in Range(files[MetricPath(ct_epoch, "mrr", 10)])
    /\ Len(files[PredictionsPath(ct_epoch)]) = 3

NonFinite == {"nan", "inf", "-inf"}

\* C15: compute_test replaces every non-finite feature (NaN, +infinity,
\* -infinity) by zero before model.score, so no tensor handed to model.score
\* holds a non-finite value.
C15_NoNonFiniteFeatureIsScored ==
    \A x \in scored : \A d \in 1..Len(x) : x[d] \notin NonFinite

----------------------------------------------------------------------------
\* The order of the steps of an epoch.

\* the statements of the loop body, in program order
LoopOrder == <<"train_batches", "train_metrics", "eval", "val_batches", "val_metrics",
               "summary", "scheduler", "export", "early_stop", "stop_check">>

\* the current epoch has completed the given step
Past(step) ==
    /\ epoch # None
    /\ \/ pc \in AfterLoop \cup {"for"}
       \/ IndexOf(LoopOrder, pc) > IndexOf(LoopOrder, step)

\* the number of epochs that have completed the given step
Completed(step) == IF epoch = None THEN 0 ELSE epoch + (IF Past(step) THEN 1 ELSE 0)

EpochsOf(split) == {c[2] : c \in {d \in metric_calls : d[1] = split}}

\* C18: in every epoch, the stopping one included, the steps happen in this
\* order: all training batches, the training metrics, the switch to
\* evaluation mode, the validation batches and metrics with gradients off,
\* the summary, one step of the scheduler if there is one (given the
\* validation metric's value by a plateau scheduler, no argument otherwise),
\* compute_test in evaluation mode
\* with gradients off, early_stop.step, the stop decision.  Stated over the
\* effects: at every position of the loop, exactly the steps before it have
\* acted for the current epoch, and every step has acted for all earlier epochs.
C18_EpochStepOrder ==
    pc # "raised" =>
        /\ Past("train_batches") => opt_steps = (epoch + 1) * Len(train_dl)
        /\ EpochsOf("train") = 0..(Completed("train_metrics") - 1)
        /\ \A c \in metric_calls : c[1] = "train" => c[3] = "train"
        /\ epoch # None => (mode = "eval" <=> Past("eval"))
        /\ pc \in {"val_batches", "val_metrics"} => ~grad_enabled
        /\ EpochsOf("val") = 0..(Completed("val_metrics") - 1)
        /\ \A c \in metric_calls : c[1] = "val" => c[3] = "eval"
        /\ tb_writes = Completed("summary")
        /\ Len(sched_steps) = IF scheduler = "None" THEN 0 ELSE Completed("scheduler")
        /\ \A i \in 1..Len(sched_steps) :
              /\ sched_steps[i][1] = i - 1
              /\ sched_steps[i][2] =
                    IF scheduler # "ReduceLROnPlateau" THEN None
                    ELSE IF i <= Len(val_hist) THEN val_hist[i]
                    ELSE current_val_metric_value
              /\ scheduler = "ReduceLROnPlateau" => sched_steps[i][2] # None
        /\ exported = 0..(Completed("export") - 1)
        /\ export_calls = {<<e, "eval", FALSE>> : e \in exported}
        /\ Len(val_hist) = Completed("early_stop")
        /\ EarlyExit =>
              /\ epoch \in exported
              /\ scheduler # "None" => sched_steps[Len(sched_steps)][1] = epoch
              /\ Len(val_hist) = epoch + 1

\* C18 witness: training stopped early at epoch 1 under a plateau scheduler;
\* the scheduler was stepped with the metric and the export written in both epochs
C18_Witness ==
    /\ EarlyExit
    /\ pc = "done"
    /\ epoch = 1
    /\ scheduler = "ReduceLROnPlateau"
    /\ Len(sched_steps) = 2
    /\ sched_steps[2][2] = val_hist[2]
    /\ exported = {0, 1}
    /\ opt_steps = 4

\* the epochs for which scheduler.step was called
SteppedEpochs == {sched_steps[i][1] : i \in 1..Len(sched_steps)}

\* the epochs for which early_stop.step was called
EarlyStopEpochs == 0..(Len(val_hist) - 1)

\* C19 as stated: within an epoch compute_test comes first, then
\* early_stop.step, and the scheduler is stepped only after early_stop.step of
\* the same epoch.
C19_SchedulerAfterEarlyStop ==
    /\ EarlyStopEpochs \subseteq exported
    /\ SteppedEpochs \subseteq EarlyStopEpochs

\* C19 amended: within an epoch the scheduler (if there is one) is stepped
\* first, then compute_test writes the export, then early_stop.step is called.
C19_SchedulerThenExportThenEarlyStop ==
    /\ scheduler # "None" => exported \subseteq SteppedEpochs
    /\ EarlyStopEpochs \subseteq exported

\* C19 witness: in epoch 1 the scheduler has been stepped while this epoch's
\* export and early_stop.step are still to come
C19_Witness ==
    /\ pc = "export"
    /\ epoch = 1
    /\ SteppedEpochs = {0, 1}
    /\ exported = {0}
    /\ EarlyStopEpochs = {0}

----------------------------------------------------------------------------
\* C20: with epochs = 0 the loop body never runs: no batch, no metric, no
\* scheduler or early-stop step, no summary and no export; model.pkl is
\* written once and the writers are closed; the return statement then raises
\* because epoch, train_metrics and val_metrics were never assigned, and no
\* result is returned.
C20_ZeroEpochsFailsAtReturn ==
    epochs = 0 =>
        /\ pc \in {"for", "save", "close", "return", "raised"}
        /\ opt_steps = 0 /\ backward_calls = 0
        /\ metric_calls = {}
        /\ tb_writes = 0
        /\ sched_steps = <<>>
        /\ val_hist = <<>>
        /\ exported = {} /\ export_calls = {}
        /\ epoch = None /\ train_metrics = NoMetrics /\ val_metrics = NoMetrics
        /\ result = None
        /\ pc \in {"return", "raised"} => checkpoint_writes = 1 /\ writer_closed
        /\ pc = "raised" => error = "UnboundLocalError"
        /\ pc = "return" => ENABLED fit_return

C20_Witness ==
    /\ epochs = 0
    /\ pc = "raised"
    /\ error = "UnboundLocalError"
    /\ checkpoint_writes = 1
    /\ writer_closed
    /\ result = None
====
